---- MODULE Spec2Model ----
(***************************************************************************)
(* A model of two parts of portage-funtoo:                                 *)
(*   - LocationsManager.__init__ and LocationsManager._addProfile          *)
(*     (pym/portage/package/ebuild/_config/LocationsManager.py), the       *)
(*     cascading-profile resolver, under the specification LocSpec;        *)
(*   - action_sync (pym/_emerge/funtoo.py), the git based tree sync,       *)
(*     under the specification SyncSpec.                                   *)
(* Each specification leaves the variables of the other part untouched.    *)
(***************************************************************************)
EXTENDS Integers, Sequences, FiniteSets, TLC

\* ------------------------------------------------------------------------
\* Bounds of the model
\* ------------------------------------------------------------------------

\* Number of profile directories on disk; directory 1 is the one the
\* profile path resolves to.
NumDirs == 3

\* Total number of entries in all `parent` files together.
MaxEdges == 3

\* Largest exit status an external process returns (0 is os.EX_OK).
MaxExit == 2

\* Largest number of arguments given to action_uninstall.
MaxFiles == 3

\* ------------------------------------------------------------------------
\* Values
\* ------------------------------------------------------------------------

\* Normalized profile paths.  1..NumDirs exist on disk; path 0 is a path
\* that a `parent` file names but that does not exist.
Dirs == 1..NumDirs
Paths == 0..NumDirs
RootDir == 1

\* os.path.exists(parentPath) for a normalized parent path (line 148).
PathExists(p) == p \in Dirs

\* Depth of nested _addProfile calls at which the interpreter gives up; every
\* traversal of an acyclic graph nests at most NumDirs calls.
RecursionLimit == NumDirs + 1

EapiStates == {"absent", "supported", "unsupported", "unreadable"}

Range(s) == {s[i] : i \in 1..Len(s)}

RECURSIVE SumTo(_, _)
SumTo(f, n) == IF n = 0 THEN 0 ELSE f[n] + SumTo(f, n - 1)

VARIABLES
    \* ---- the profile tree on disk (read-only for the program) ----
    hasParentFile,      \* [Dirs -> BOOLEAN]: os.path.exists(<dir>/parent)
    parentsOf,          \* [Dirs -> Seq(Paths)]: grabfile(<dir>/parent), each
                        \*   entry already joined to the directory and normalized
    eapiFile,           \* [Dirs -> EapiStates]: the directory's eapi file
    \* ---- LocationsManager ----
    lpc,                \* position in __init__
    config_root_isdir,  \* "unread" | "yes" | "no": os.path.isdir(config_root)
    profile_path,       \* "unset" | "None" | "" | "dir": self.profile_path
    user_config,        \* "unread" | "yes" | "no": self._user_config
    custom_prof_exists, \* "unread" | "yes" | "no": os.path.exists(custom_prof)
    profiles,           \* self.profiles; 0 < p: a profile directory, -1: custom_prof
    user_profile_dir,   \* "None" | "custom_prof": self.user_profile_dir
    stack,              \* active _addProfile calls, innermost last:
                        \*   [path, done]: done parents already processed
    visited,            \* history: currentPath of every _addProfile call made
    error,              \* [kind, path, partial]: the ParseError raised, if any
    \* ---- action_sync ----
    spc,                \* position in action_sync
    sin,                \* the inputs of the call (settings, options, action)
    fs0,                \* history: the directories as action_sync found them
    fs,                 \* the directories action_sync looks at
    calls,              \* history: [step, rc] of every external step invoked
    result,             \* [kind, code]: how action_sync ended
    \* ---- action_uninstall ----
    upc,                \* position in action_uninstall
    action,             \* the action: clean, unmerge, prune, depclean, deselect
    files,              \* the arguments, a sequence of Tokens
    cursor,             \* the place in files that the loop of line 182 is at
    valid_atoms,        \* the atoms collected so far
    origin,             \* history: where each entry of valid_atoms comes from
    lookup_owners,      \* the paths queued for the owner lookup, as places
                        \* in files
    owned,              \* history: the installed packages that own each of
                        \* the queued paths, by the text of the path
    search_for_multiple,
    owners,             \* the packages found by the owner lookup
    warned,             \* history: the paths reported as not claimed
    dispatched,         \* history: [who, atoms, ordered] of every
                        \* collaborator called
    rval                \* [kind, code]: how action_uninstall ended

locVars == <<lpc, config_root_isdir, profile_path, user_config,
             custom_prof_exists, profiles, user_profile_dir, stack, visited,
             error>>
treeVars == <<hasParentFile, parentsOf, eapiFile>>
syncVars == <<spc, sin, fs0, fs, calls, result>>
unVars == <<upc, action, files, cursor, valid_atoms, origin, lookup_owners,
            owned, search_for_multiple, owners, warned, dispatched, rval>>
vars == <<treeVars, locVars, syncVars, unVars>>

\* ------------------------------------------------------------------------
\* The profile tree on disk
\* ------------------------------------------------------------------------

\* The directory of the user's custom profile (config_root/etc/portage/profile),
\* a path outside the profile tree.
CustomProf == NumDirs + 1

EntryCount(l) == SumTo([d \in Dirs |-> IF l[d] < 0 THEN 0 ELSE l[d]], NumDirs)
EntriesBefore(l, d) == SumTo([e \in Dirs |-> IF l[e] < 0 THEN 0 ELSE l[e]], d - 1)

\* Length of each directory's parent file (-1: no parent file), at most
\* MaxEdges entries in all.
TreeShapes == {l \in [Dirs -> -1..MaxEdges] : EntryCount(l) <= MaxEdges}

\* The eapi files of the tree: no directory, or a single one, carries one.
EapiChoices ==
    {e \in [Dirs -> EapiStates] :
        \A c, d \in Dirs : e[c] # "absent" /\ e[d] # "absent" => c = d}

\* Directories that parent entries lead to from RootDir.
RECURSIVE ReachFrom(_, _, _)
ReachFrom(po, S, k) ==
    IF k = 0 THEN S
    ELSE ReachFrom(po, S \cup {q \in Dirs : \E d \in S : q \in Range(po[d])}, k - 1)
Referenced(po) == ReachFrom(po, {RootDir}, NumDirs)

TreeInit ==
    \E l \in TreeShapes :
      \E flat \in [1..EntryCount(l) -> Paths] :
        \E e \in EapiChoices :
          /\ hasParentFile = [d \in Dirs |-> l[d] >= 0]
          /\ parentsOf = [d \in Dirs |->
                 [i \in 1..(IF l[d] < 0 THEN 0 ELSE l[d]) |->
                     flat[EntriesBefore(l, d) + i]]]
          /\ eapiFile = e
          \* a directory no parent entry leads to carries no marker file
          /\ \A d \in Dirs \ Referenced(parentsOf) :
                ~hasParentFile[d] /\ eapiFile[d] = "absent"

\* ------------------------------------------------------------------------
\* LocationsManager
\* ------------------------------------------------------------------------

NoError == [kind |-> "none", path |-> 0, partial |-> 0]

LocInit ==
    /\ lpc = "init"
    /\ config_root_isdir = "unread"
    /\ profile_path = "unset"
    /\ user_config = "unread"
    /\ custom_prof_exists = "unread"
    /\ profiles = <<>>
    /\ user_profile_dir = "None"
    /\ stack = <<>>
    /\ visited = <<>>
    /\ error = NoError

YesNo(b) == IF b THEN "yes" ELSE "no"

\* Variant of check_directory_raises: the check reports but does not raise.
check_directory_silent(isdir) == FALSE

\* _check_directory: raises DirectoryNotFound unless the path is a directory.
check_directory_raises(isdir) == ~isdir

\* __init__, lines 22-39: normalize config_root and check that it is a directory.
CheckConfigRoot ==
    /\ lpc = "init"
    /\ \E isdir \in BOOLEAN :
         /\ config_root_isdir' = YesNo(isdir)
         /\ lpc' = IF check_directory_raises(isdir)
                   THEN "DirectoryNotFound" ELSE "select"
    /\ UNCHANGED <<profile_path, user_config, custom_prof_exists, profiles,
                   user_profile_dir, stack, visited, error>>
    /\ UNCHANGED <<treeVars, syncVars, unVars>>

\* __init__, lines 45-65: the profile path.  cpp is the config_profile_path
\* argument ("dir": a path given by the caller), classic and alt tell whether
\* config_root/etc/make.profile and config_root/etc/portage/make.profile are
\* directories.
ChooseProfilePath(cpp, classic, alt) ==
    IF cpp = "None"
    THEN IF classic THEN "dir" ELSE IF alt THEN "dir" ELSE "None"
    ELSE cpp

\* if self.profile_path: (line 72)
HasProfile(pp) == pp = "dir"

\* __init__, lines 41-76: choose the profile path, start with no profiles and
\* call _addProfile on the profile directory when there is one.
SelectProfilePath ==
    /\ lpc = "select"
    /\ \E cpp \in {"None", "", "dir"}, classic \in BOOLEAN, alt \in BOOLEAN :
         LET pp == ChooseProfilePath(cpp, classic, alt) IN
         /\ profile_path' = pp
         /\ profiles' = <<>>
         /\ IF HasProfile(pp)
            THEN /\ stack' = <<[path |-> RootDir, done |-> 0]>>
                 /\ visited' = <<RootDir>>
                 /\ lpc' = "addProfile"
            ELSE /\ UNCHANGED <<stack, visited>>
                 /\ lpc' = "user"
    /\ UNCHANGED <<config_root_isdir, user_config, custom_prof_exists,
                   user_profile_dir, error>>
    /\ UNCHANGED <<treeVars, syncVars, unVars>>

\* ---- _addProfile ----

Top == stack[Len(stack)]

\* Variant of EapiRejected: the eapi file is read but its content is not
\* checked.
EapiNeverRejected(p) == FALSE

\* lines 121-128: the eapi file exists, can be read and names an EAPI that
\* eapi_is_supported rejects.
EapiRejected(p) == eapiFile[p] = "unsupported"

\* The EAPI check of a call is made once, before its parents are read.
EapiChecked(f) == f.done > 0 \/ ~EapiRejected(f.path)

\* Variant of EmptyParentFile: an empty parent file is taken for no parents.
EmptyParentFileIgnored(p) == FALSE

\* lines 132-139: the parent file exists and grabfile returns nothing.
EmptyParentFile(p) == hasParentFile[p] /\ Len(parentsOf[p]) = 0

\* lines 143-144: the next parent of the call, if any is left.
HasNextParent(f) == hasParentFile[f.path] /\ f.done < Len(parentsOf[f.path])
NextParent(f) == parentsOf[f.path][f.done + 1]

\* Variant of AddSelf: the profile is put in front of its parents.
AddSelfFirst(list, p) == <<p>> \o list

\* Variant of AddSelf: a profile already in the list is not added again.
AddSelfOnce(list, p) == IF p \in Range(list) THEN list ELSE Append(list, p)

\* line 155: the call adds its own profile to the list.
AddSelf(list, p) == Append(list, p)

\* A ParseError leaves _addProfile, unwinding every active call.
Raise(kind, p) ==
    /\ lpc' = "ParseError"
    /\ error' = [kind |-> kind, path |-> p, partial |-> Len(profiles)]
    /\ stack' = <<>>
    /\ UNCHANGED <<config_root_isdir, profile_path, user_config,
                   custom_prof_exists, profiles, user_profile_dir, visited>>
    /\ UNCHANGED <<treeVars, syncVars, unVars>>

\* line 128
RaiseUnsupportedEAPI ==
    /\ lpc = "addProfile"
    /\ Top.done = 0
    /\ EapiRejected(Top.path)
    /\ Raise("UnsupportedEAPI", Top.path)

\* line 139
RaiseEmptyParentFile ==
    /\ lpc = "addProfile"
    /\ EapiChecked(Top)
    /\ EmptyParentFile(Top.path)
    /\ Raise("EmptyParentFile", Top.path)

\* line 151
RaiseParentNotFound ==
    /\ lpc = "addProfile"
    /\ EapiChecked(Top)
    /\ HasNextParent(Top)
    /\ ~PathExists(NextParent(Top))
    /\ Raise("ParentNotFound", Top.path)

\* Variant of Recurse: a parent that is the directory of an active call is
\* reported as a cyclic reference instead of being entered again.
RecurseDetectingCycles ==
    /\ lpc = "addProfile"
    /\ EapiChecked(Top)
    /\ HasNextParent(Top)
    /\ PathExists(NextParent(Top))
    /\ Len(stack) < RecursionLimit
    /\ IF \E i \in 1..Len(stack) : stack[i].path = NextParent(Top)
       THEN Raise("CyclicProfileReference", Top.path)
       ELSE /\ stack' = Append([stack EXCEPT ![Len(stack)].done = @ + 1],
                               [path |-> NextParent(Top), done |-> 0])
            /\ visited' = Append(visited, NextParent(Top))
            /\ UNCHANGED <<lpc, config_root_isdir, profile_path, user_config,
                           custom_prof_exists, profiles, user_profile_dir,
                           error>>
            /\ UNCHANGED <<treeVars, syncVars, unVars>>

\* lines 148-149: the recursive call for the next parent.
Recurse ==
    /\ lpc = "addProfile"
    /\ EapiChecked(Top)
    /\ HasNextParent(Top)
    /\ PathExists(NextParent(Top))
    /\ Len(stack) < RecursionLimit
    /\ stack' = Append([stack EXCEPT ![Len(stack)].done = @ + 1],
                       [path |-> NextParent(Top), done |-> 0])
    /\ visited' = Append(visited, NextParent(Top))
    /\ UNCHANGED <<lpc, config_root_isdir, profile_path, user_config,
                   custom_prof_exists, profiles, user_profile_dir, error>>
    /\ UNCHANGED <<treeVars, syncVars, unVars>>

\* line 149 at the interpreter's recursion limit: the call raises a
\* RuntimeError, which __init__ does not catch.
RecursionOverflow ==
    /\ lpc = "addProfile"
    /\ EapiChecked(Top)
    /\ HasNextParent(Top)
    /\ PathExists(NextParent(Top))
    /\ Len(stack) >= RecursionLimit
    /\ lpc' = "RuntimeError"
    /\ stack' = <<>>
    /\ UNCHANGED <<config_root_isdir, profile_path, user_config,
                   custom_prof_exists, profiles, user_profile_dir, visited,
                   error>>
    /\ UNCHANGED <<treeVars, syncVars, unVars>>

\* line 155, then the return to the caller (or to __init__).
AppendSelf ==
    /\ lpc = "addProfile"
    /\ EapiChecked(Top)
    /\ ~EmptyParentFile(Top.path)
    /\ ~HasNextParent(Top)
    /\ profiles' = AddSelf(profiles, Top.path)
    /\ stack' = SubSeq(stack, 1, Len(stack) - 1)
    /\ lpc' = IF Len(stack) = 1 THEN "resolved" ELSE "addProfile"
    /\ UNCHANGED <<config_root_isdir, profile_path, user_config,
                   custom_prof_exists, user_profile_dir, visited, error>>
    /\ UNCHANGED <<treeVars, syncVars, unVars>>

\* Variant of OnParseError: the handler only reports the error.
OnParseErrorKeep(list) == list

\* line 82: what the ParseError handler of __init__ leaves in self.profiles.
OnParseError(list) == <<>>

\* __init__, lines 77-82.
HandleParseError ==
    /\ lpc = "ParseError"
    /\ profiles' = OnParseError(profiles)
    /\ lpc' = "user"
    /\ UNCHANGED <<config_root_isdir, profile_path, user_config,
                   custom_prof_exists, user_profile_dir, stack, visited, error>>
    /\ UNCHANGED <<treeVars, syncVars, unVars>>

\* lines 86-89: the custom profile directory is added.
AddsCustomProfile(uc, list, exists) == uc /\ list # <<>> /\ exists

\* __init__, lines 84-97.  uc is the local_config argument (self._user_config),
\* exists tells whether config_root/etc/portage/profile exists.
FinishInit ==
    /\ lpc \in {"resolved", "user"}
    /\ \E uc \in BOOLEAN, exists \in BOOLEAN :
         /\ user_config' = YesNo(uc)
         /\ custom_prof_exists' = YesNo(exists)
         /\ IF AddsCustomProfile(uc, profiles, exists)
            THEN /\ user_profile_dir' = "custom_prof"
                 /\ profiles' = Append(profiles, CustomProf)
            ELSE UNCHANGED <<user_profile_dir, profiles>>
    /\ lpc' = "done"
    /\ UNCHANGED <<config_root_isdir, profile_path, stack, visited, error>>
    /\ UNCHANGED <<treeVars, syncVars, unVars>>

LocNext ==
    \/ CheckConfigRoot
    \/ SelectProfilePath
    \/ RaiseUnsupportedEAPI
    \/ RaiseEmptyParentFile
    \/ RaiseParentNotFound
    \/ Recurse
    \/ RecursionOverflow
    \/ AppendSelf
    \/ HandleParseError
    \/ FinishInit

\* ------------------------------------------------------------------------
\* action_sync
\* ------------------------------------------------------------------------

\* Exit statuses of the external processes; 0 is os.EX_OK.
ExitCodes == 0..MaxExit

\* The inputs of a call:
\*   portdir          PORTDIR is defined (lines 6-12)
\*   git              find_binary("git") finds git (line 35)
\*   syncuri          SYNC is not empty (line 28)
\*   action           myaction
\*   metadata_transfer  "metadata-transfer" in settings.features (line 135)
\*   package_moves    myopts.get('--package-moves') != 'n' (line 150)
SyncInputs ==
    [portdir : BOOLEAN, git : BOOLEAN, syncuri : BOOLEAN,
     action : {"sync", "metadata"}, metadata_transfer : BOOLEAN,
     package_moves : BOOLEAN]

\* The directories of lines 53-63:
\*   common      common_path exists
\*   fin         repo_path_fin (myportdir): "absent", "plain" (a directory
\*               without .git) or "git" (a directory with .git)
\*   work        work_path exists
\*   work_other  work_path holds something else than repo_path_tmp
\*   tmp         repo_path_tmp: "absent", "empty" or "files"
\*   cache       myportdir/metadata/cache exists ("unread" until line 144)
SyncDirs ==
    {d \in [common : BOOLEAN, fin : {"absent", "plain", "git"},
            work : BOOLEAN, work_other : BOOLEAN,
            tmp : {"absent", "empty", "files"}, cache : {"unread"}] :
        /\ (d.fin # "absent" \/ d.work) => d.common
        /\ d.work_other => d.work
        /\ d.tmp # "absent" => d.work}

NoResult == [kind |-> "none", code |-> 0]

SyncInit ==
    /\ spc = "start"
    /\ sin \in SyncInputs
    /\ fs0 \in SyncDirs
    /\ fs = fs0
    /\ calls = <<>>
    /\ result = NoResult

SyncIdle ==
    /\ spc = "idle"
    /\ sin = <<>>
    /\ fs0 = <<>>
    /\ fs = <<>>
    /\ calls = <<>>
    /\ result = NoResult

\* The external step is invoked and ends with status rc.
Invoke(step, rc) == calls' = Append(calls, [step |-> step, rc |-> rc])

\* sys.exit(code)
Exit(code) == spc' = "exited" /\ result' = [kind |-> "exit", code |-> code]

\* return code
Return(code) == spc' = "returned" /\ result' = [kind |-> "return", code |-> code]

Goto(pos) == spc' = pos /\ UNCHANGED result

\* lines 1-44: PORTDIR, git and SYNC are looked up and the branch is chosen.
Start ==
    /\ spc = "start"
    /\ IF ~sin.portdir THEN Exit(1)
       ELSE IF ~sin.git THEN Return(1)
       ELSE IF fs.fin = "absent"
            THEN IF ~sin.syncuri THEN Return(1) ELSE Goto("checkdirs")
            ELSE Goto("marker")
    /\ UNCHANGED <<sin, fs0, fs, calls>>
    /\ UNCHANGED <<treeVars, locVars, unVars>>

\* Variant of RmdirFails: directories in the way are removed with their content.
RmdirNeverFails(holdsFiles) == FALSE

\* line 73: os.rmdir raises OSError on a directory that holds files.
RmdirFails(holdsFiles) == holdsFiles

\* repo_path_tmp after line 73 ran for it.
TmpAfterCheck(d) == IF RmdirFails(d.tmp = "files") THEN d.tmp ELSE "absent"

\* lines 70-76 for repo_path_tmp: it exists and cannot be removed.
TmpBlocks(d) == d.tmp # "absent" /\ RmdirFails(d.tmp = "files")

\* lines 70-76 for work_path, after repo_path_tmp: it exists and cannot be
\* removed.
WorkBlocks(d) ==
    d.work /\ RmdirFails(d.work_other \/ TmpAfterCheck(d) # "absent")

\* lines 65-76: directories left over at the temporary places are removed
\* when empty; one that holds files ends the sync.
CheckDirs ==
    /\ spc = "checkdirs"
    /\ IF TmpBlocks(fs)
       THEN Exit(1) /\ UNCHANGED fs
       ELSE IF WorkBlocks(fs)
            THEN Exit(1) /\ fs' = [fs EXCEPT !.tmp = TmpAfterCheck(fs)]
            ELSE /\ Goto("mkwork")
                 /\ fs' = [fs EXCEPT !.tmp = "absent", !.work = FALSE,
                                     !.work_other = FALSE]
    /\ UNCHANGED <<sin, fs0, calls>>
    /\ UNCHANGED <<treeVars, locVars, unVars>>

\* Variant of FatalExit: the sync ends with the exit status of the failed
\* step.
FatalExitWithStatus(rc) == Exit(rc)

\* lines 87, 94, 102 and 108: sys.exit(1), whatever the status rc of the step
\* that failed.
FatalExit(rc) == Exit(1)

\* Variant of StepFailed: the exit status of the step is not looked at.
StepNeverFailed(rc) == FALSE

\* ... != os.EX_OK
StepFailed(rc) == rc # 0

\* lines 81-87: common_path is created when missing, then work_path is
\* created by install -d.
MakeWorkDir ==
    /\ spc = "mkwork"
    /\ \E rc \in ExitCodes :
         /\ Invoke("install -d work_path", rc)
         /\ IF StepFailed(rc)
            THEN FatalExit(rc) /\ fs' = [fs EXCEPT !.common = TRUE]
            ELSE Goto("probe") /\ fs' = [fs EXCEPT !.common = TRUE, !.work = TRUE]
    /\ UNCHANGED <<sin, fs0>>
    /\ UNCHANGED <<treeVars, locVars, unVars>>

\* lines 92-94: can SYNC_USER reach common_path?
Probe ==
    /\ spc = "probe"
    /\ \E rc \in ExitCodes :
         /\ Invoke("su cd common_path", rc)
         /\ IF StepFailed(rc) THEN FatalExit(rc) ELSE Goto("clone")
    /\ UNCHANGED <<sin, fs0, fs>>
    /\ UNCHANGED <<treeVars, locVars, unVars>>

\* Variant of CloneFailed: the sync goes on after a failed clone.
CloneFailureIgnored(rc) == FALSE

\* line 100: the clone did not end with os.EX_OK.
CloneFailed(rc) == rc # 0

\* lines 98-102: git clone into repo_path_tmp as SYNC_USER.  A clone that
\* fails may leave a partial repo_path_tmp behind.
Clone ==
    /\ spc = "clone"
    /\ \E rc \in ExitCodes :
         /\ Invoke("git clone", rc)
         /\ IF rc = 0
            THEN fs' = [fs EXCEPT !.tmp = "files"]
            ELSE \E left \in {"absent", "files"} : fs' = [fs EXCEPT !.tmp = left]
         /\ IF CloneFailed(rc) THEN FatalExit(rc) ELSE Goto("move")
    /\ UNCHANGED <<sin, fs0>>
    /\ UNCHANGED <<treeVars, locVars, unVars>>

\* lines 106-108: mv repo_path_tmp repo_path_fin.
Move ==
    /\ spc = "move"
    /\ \E rc \in ExitCodes :
         /\ Invoke("mv", rc)
         /\ IF StepFailed(rc)
            THEN FatalExit(rc) /\ UNCHANGED fs
            ELSE /\ Goto("cleanup")
                 /\ fs' = [fs EXCEPT !.fin = IF fs.tmp = "files" THEN "git" ELSE "plain",
                                     !.tmp = "absent"]
    /\ UNCHANGED <<sin, fs0>>
    /\ UNCHANGED <<treeVars, locVars, unVars>>

\* line 111: the directory that rm -rf is given.
CleanupTarget == "repo_path_tmp"

\* The directories after rm -rf of the target ended with status rc.
AfterCleanup(d, target, rc) ==
    IF rc # 0 THEN d
    ELSE IF target = "work_path"
         THEN [d EXCEPT !.work = FALSE, !.work_other = FALSE, !.tmp = "absent"]
         ELSE [d EXCEPT !.tmp = "absent"]

\* lines 110-111: rm -rf; its exit status is not looked at.
Cleanup ==
    /\ spc = "cleanup"
    /\ \E rc \in ExitCodes :
         /\ Invoke("rm -rf", rc)
         /\ fs' = AfterCleanup(fs, CleanupTarget, rc)
    /\ Goto("timestamps")
    /\ UNCHANGED <<sin, fs0>>
    /\ UNCHANGED <<treeVars, locVars, unVars>>

\* Variant of MarkerMissing: the tree is not checked for .git.
MarkerNotChecked(d) == FALSE

\* line 113: myportdir/.git does not exist.
MarkerMissing(d) == d.fin # "git"

\* lines 113-115: the tree must be a git repository.
CheckMarker ==
    /\ spc = "marker"
    /\ IF MarkerMissing(fs) THEN Exit(1) ELSE Goto("reach")
    /\ UNCHANGED <<sin, fs0, fs, calls>>
    /\ UNCHANGED <<treeVars, locVars, unVars>>

\* lines 116-118: can SYNC_USER reach myportdir?
Reach ==
    /\ spc = "reach"
    /\ \E rc \in ExitCodes :
         /\ Invoke("su cd myportdir", rc)
         /\ IF StepFailed(rc) THEN Exit(1) ELSE Goto("pull")
    /\ UNCHANGED <<sin, fs0, fs>>
    /\ UNCHANGED <<treeVars, locVars, unVars>>

\* Variant of Pull: a failed pull ends the sync like a failed bootstrap step.
PullFatal ==
    /\ spc = "pull"
    /\ \E rc \in ExitCodes :
         /\ Invoke("git pull", rc)
         /\ IF StepFailed(rc) THEN Exit(1) ELSE Goto("timestamps")
    /\ UNCHANGED <<sin, fs0, fs>>
    /\ UNCHANGED <<treeVars, locVars, unVars>>

\* lines 119-128: git pull as SYNC_USER; its exit status is returned when it
\* is not os.EX_OK.
Pull ==
    /\ spc = "pull"
    /\ \E rc \in ExitCodes :
         /\ Invoke("git pull", rc)
         /\ IF StepFailed(rc) THEN Return(rc) ELSE Goto("timestamps")
    /\ UNCHANGED <<sin, fs0, fs>>
    /\ UNCHANGED <<treeVars, locVars, unVars>>

\* lines 131-133: git_sync_timestamps; on failure sys.exit(retval) is reached
\* with retval not yet bound, which raises UnboundLocalError.
Timestamps ==
    /\ spc = "timestamps"
    /\ \E rc \in ExitCodes :
         /\ Invoke("git_sync_timestamps", rc)
         /\ IF StepFailed(rc)
            THEN /\ spc' = "raised"
                 /\ result' = [kind |-> "UnboundLocalError", code |-> 0]
            ELSE Goto("reload")
    /\ UNCHANGED <<sin, fs0, fs>>
    /\ UNCHANGED <<treeVars, locVars, unVars>>

\* Variant of Reload: the configuration is not loaded again before the cache
\* update.
ReloadSkipped ==
    /\ spc = "reload"
    /\ Goto("metadata")
    /\ UNCHANGED <<sin, fs0, fs, calls>>
    /\ UNCHANGED <<treeVars, locVars, unVars>>

\* lines 138-142: load_emerge_config and adjust_configs.
Reload ==
    /\ spc = "reload"
    /\ Invoke("load_emerge_config", 0)
    /\ Goto("metadata")
    /\ UNCHANGED <<sin, fs0, fs>>
    /\ UNCHANGED <<treeVars, locVars, unVars>>

\* Variant of UpdateCacheFlag: the flag of line 40 is never reset.
UpdateCacheFlagKept(in) == TRUE

\* lines 31-40 and 135-136: updatecache_flg when line 144 reads it.  Line 40
\* sets it for every action; line 136 resets it unless the action is
\* "metadata" or the metadata-transfer feature is on.
UpdateCacheFlag(in) ==
    ~(in.action # "metadata" /\ ~in.metadata_transfer)

\* lines 144-148: action_metadata for myportdir, when the flag is set and
\* metadata/cache exists.
Metadata ==
    /\ spc = "metadata"
    /\ \E cache \in BOOLEAN :
         /\ fs' = [fs EXCEPT !.cache = YesNo(cache)]
         /\ IF UpdateCacheFlag(sin) /\ cache
            THEN Invoke("action_metadata", 0)
            ELSE UNCHANGED calls
    /\ Goto("updates")
    /\ UNCHANGED <<sin, fs0>>
    /\ UNCHANGED <<treeVars, locVars, unVars>>

\* lines 150-156: _global_updates, unless --package-moves=n; when it applied
\* updates, mtimedb.commit and a second load_emerge_config.
GlobalUpdates ==
    /\ spc = "updates"
    /\ IF sin.package_moves
       THEN \E applied \in BOOLEAN :
              calls' = calls
                \o <<[step |-> "_global_updates", rc |-> 0]>>
                \o (IF applied
                    THEN <<[step |-> "mtimedb.commit", rc |-> 0],
                           [step |-> "load_emerge_config", rc |-> 0]>>
                    ELSE <<>>)
       ELSE UNCHANGED calls
    /\ Goto("cfgfiles")
    /\ UNCHANGED <<sin, fs0, fs>>
    /\ UNCHANGED <<treeVars, locVars, unVars>>

\* line 158
CheckConfigFiles ==
    /\ spc = "cfgfiles"
    /\ Invoke("chk_updated_cfg_files", 0)
    /\ Goto("hook")
    /\ UNCHANGED <<sin, fs0, fs>>
    /\ UNCHANGED <<treeVars, locVars, unVars>>

\* lines 160-165: the post_sync hook, when the action is not "metadata" and
\* the hook is executable; its exit status is only reported.
PostSyncHook ==
    /\ spc = "hook"
    /\ IF sin.action # "metadata"
       THEN \E executable \in BOOLEAN :
              IF executable
              THEN \E rc \in ExitCodes : Invoke("post_sync", rc)
              ELSE UNCHANGED calls
       ELSE UNCHANGED calls
    /\ Goto("news")
    /\ UNCHANGED <<sin, fs0, fs>>
    /\ UNCHANGED <<treeVars, locVars, unVars>>

\* lines 167-168
News ==
    /\ spc = "news"
    /\ Invoke("display_news_notification", 0)
    /\ Return(0)
    /\ UNCHANGED <<sin, fs0, fs>>
    /\ UNCHANGED <<treeVars, locVars, unVars>>

SyncNext ==
    \/ Start
    \/ CheckDirs
    \/ MakeWorkDir
    \/ Probe
    \/ Clone
    \/ Move
    \/ Cleanup
    \/ CheckMarker
    \/ Reach
    \/ Pull
    \/ Timestamps
    \/ Reload
    \/ Metadata
    \/ GlobalUpdates
    \/ CheckConfigFiles
    \/ PostSyncHook
    \/ News

\* ------------------------------------------------------------------------
\* action_uninstall
\* ------------------------------------------------------------------------

\* The arguments given on the command line.  kind tells what the text is:
\*   "atom"       a valid package atom, e.g. app/a or =app/a-1.0
\*   "cpv"        category/name-version without the leading '='
\*   "ambiguous"  a short name that several installed packages share
\*   "path"       an absolute path under $ROOT
\*   "outside"    an absolute path that does not start with $ROOT (the text
\*                is what follows the first os.sep)
\*   "set"        a package set, e.g. @world
\*   "junk"       anything else
Tokens ==
    {[kind |-> "atom", text |-> "app/a"], [kind |-> "atom", text |-> "app/b"],
     [kind |-> "cpv", text |-> "app/a-1.0"],
     [kind |-> "ambiguous", text |-> "a"],
     [kind |-> "path", text |-> "/f"], [kind |-> "path", text |-> "/g"],
     [kind |-> "outside", text |-> "f"],
     [kind |-> "set", text |-> "@world"],
     [kind |-> "junk", text |-> "?"]}

Actions == {"clean", "unmerge", "prune", "depclean", "deselect"}

\* The installed packages (vardb), as category/name, "-", version.
Installed ==
    {<<"app/a", "-", "1.0">>, <<"app/a", "-", "2.0">>, <<"app/b", "-", "1.0">>}

\* vardb.aux_get(cpv, ['SLOT'])[0]; app/a-1.0 was installed without a slot.
SLOT(cpv) ==
    IF cpv = <<"app/a", "-", "1.0">> THEN ""
    ELSE IF cpv[3] = "2.0" THEN "2" ELSE "0"

\* line 174
ignore_missing_eq(act) == act \in {"clean", "unmerge"}

\* is_valid_package_atom(x, allow_repo=True)
is_valid_package_atom(x) == x.kind \in {"atom", "ambiguous"}

\* is_valid_package_atom('=' + x)
is_valid_with_eq(x) == x.kind \in {"cpv"}

\* dep_expand(x): the atom for x, with the '=' that backward compatibility
\* leaves out.
dep_expand(x) == IF x.kind = "cpv" THEN <<"=", x.text>> ELSE <<x.text>>

\* lines 183-221: the branch that the loop takes for x.
Classification(x, act) ==
    IF is_valid_package_atom(x) \/ (ignore_missing_eq(act) /\ is_valid_with_eq(x))
    THEN IF x.kind = "ambiguous" THEN "AmbiguousPackageName" ELSE "atom"
    ELSE IF x.kind \in {"path", "outside"}
         THEN IF x.kind = "outside" THEN "not under ROOT" ELSE "owner lookup"
         ELSE IF x.kind = "set" /\ act = "deselect"
              THEN "set"
              ELSE "not a valid atom"

\* Variant of Rejects: an argument that cannot be used is passed over.
RejectsNothing(class) == FALSE

\* lines 201, 207 and 221: return 1
Rejects(class) ==
    class \in {"AmbiguousPackageName", "not under ROOT", "not a valid atom"}

\* Variant of AddAtom: new atoms are put in front.
AddAtomInFront(list, a) == <<a>> \o list

\* valid_atoms.append(a)
AddAtom(list, a) == Append(list, a)

\* Where an entry of valid_atoms comes from: the argument at place arg, or
\* (arg = 0) the installed package cpv found by the owner lookup.
FromArgument(i) == [arg |-> i, cpv |-> <<>>]
FromOwner(cpv) == [arg |-> 0, cpv |-> cpv]

UninstallInit ==
    /\ upc = "classify"
    /\ action \in Actions
    /\ files \in UNION {[1..n -> Tokens] : n \in 0..MaxFiles}
    /\ cursor = 1
    /\ valid_atoms = <<>>
    /\ origin = <<>>
    /\ lookup_owners = <<>>
    /\ owned = <<>>
    /\ search_for_multiple = FALSE
    /\ owners = {}
    /\ warned = <<>>
    /\ dispatched = <<>>
    /\ rval = NoResult

UninstallIdle ==
    /\ upc = "idle"
    /\ action = "none"
    /\ files = <<>>
    /\ cursor = 1
    /\ valid_atoms = <<>>
    /\ origin = <<>>
    /\ lookup_owners = <<>>
    /\ owned = <<>>
    /\ search_for_multiple = FALSE
    /\ owners = {}
    /\ warned = <<>>
    /\ dispatched = <<>>
    /\ rval = NoResult

\* return code
UReturn(code) == upc' = "returned" /\ rval' = [kind |-> "return", code |-> code]

\* lines 182-221: one turn of the loop over files.
Classify ==
    /\ upc = "classify"
    /\ cursor <= Len(files)
    /\ LET x == files[cursor]
           class == Classification(x, action)
       IN  IF Rejects(class)
           THEN /\ UReturn(1)
                /\ UNCHANGED <<cursor, valid_atoms, origin, lookup_owners>>
           ELSE /\ upc' = upc
                /\ rval' = rval
                /\ cursor' = cursor + 1
                /\ IF class = "atom"
                   THEN /\ valid_atoms' = AddAtom(valid_atoms, dep_expand(x))
                        /\ origin' = AddAtom(origin, FromArgument(cursor))
                        /\ UNCHANGED lookup_owners
                   ELSE IF class = "owner lookup"
                   THEN /\ lookup_owners' = Append(lookup_owners, cursor)
                        /\ UNCHANGED <<valid_atoms, origin>>
                   ELSE IF class = "set"
                   THEN /\ valid_atoms' = AddAtom(valid_atoms, <<x.text>>)
                        /\ origin' = AddAtom(origin, FromArgument(cursor))
                        /\ UNCHANGED lookup_owners
                   ELSE UNCHANGED <<valid_atoms, origin, lookup_owners>>
    /\ UNCHANGED <<action, files, owned, search_for_multiple, owners, warned,
                   dispatched>>
    /\ UNCHANGED <<treeVars, locVars, syncVars>>

\* Variant of SearchForMultiple: the lookup always stops at the first owner.
SearchForOne(paths, isdir) == FALSE

\* lines 225-231: search_for_multiple after the loop over lookup_owners.
SearchForMultiple(paths, isdir) == Len(paths) > 1 \/ isdir

\* Variant of cpv_getkey: the version is kept.
cpv_unchanged(cpv) == cpv

\* portage.cpv_getkey(cpv): category/name without the version.
cpv_getkey(cpv) == SubSeq(cpv, 1, 1)

\* lines 243-249: the atom for an owner.
OwnerAtom(cpv) ==
    IF SLOT(cpv) = "" THEN cpv_getkey(cpv)
    ELSE cpv_getkey(cpv) \o <<":", SLOT(cpv)>>

\* The orders in which a set can be iterated.
Orders(S) ==
    {s \in [1..Cardinality(S) -> S] : \A i, j \in DOMAIN s : s[i] = s[j] => i = j}

\* lines 242-250: the loop over owners, iterated in the order given.
RECURSIVE AddOwners(_, _)
AddOwners(list, atoms) ==
    IF atoms = <<>> THEN list
    ELSE AddOwners(AddAtom(list, Head(atoms)), Tail(atoms))

\* The paths queued for the owner lookup.
Queued == {files[lookup_owners[k]].text : k \in 1..Len(lookup_owners)}

\* lines 223-253: the owners of the queued paths are looked up in one
\* iter_owners call; own[x] is the set of installed packages that own the
\* path x.  The call yields one (package, path) pair per owned path, in no
\* order that the caller controls.
LookupOwners ==
    /\ upc = "classify"
    /\ cursor > Len(files)
    /\ upc' = "resolved"
    /\ IF lookup_owners = <<>>
       THEN UNCHANGED <<owned, search_for_multiple, owners, valid_atoms,
                        origin, warned>>
       ELSE \E own \in [Queued -> SUBSET Installed],
               isdir \in BOOLEAN :
              LET yielded == UNION {own[k] : k \in DOMAIN own}
                  multiple == SearchForMultiple(lookup_owners, isdir)
              IN  /\ owned' = own
                  /\ search_for_multiple' = multiple
                  /\ \E found \in SUBSET yielded :
                       /\ IF multiple \/ yielded = {}
                          THEN found = yielded
                          ELSE Cardinality(found) = 1
                       /\ owners' = found
                       /\ IF found # {}
                          THEN /\ \E order \in Orders(found) :
                                    /\ valid_atoms' =
                                         AddOwners(valid_atoms,
                                                   [i \in DOMAIN order |->
                                                        OwnerAtom(order[i])])
                                    /\ origin' =
                                         AddOwners(origin,
                                                   [i \in DOMAIN order |->
                                                        FromOwner(order[i])])
                               /\ UNCHANGED warned
                          ELSE /\ warned' = Append(warned, lookup_owners[1])
                               /\ UNCHANGED <<valid_atoms, origin>>
    /\ UNCHANGED <<action, files, cursor, lookup_owners, dispatched, rval>>
    /\ UNCHANGED <<treeVars, locVars, syncVars>>

\* Variant of NothingResolved: a list without atoms is handed on.
NothingResolvedIgnored(args, atoms) == FALSE

\* line 256: files and not valid_atoms
NothingResolved(args, atoms) == args # <<>> /\ atoms = <<>>

\* A collaborator is called with the atoms.
Dispatch(who, ordered) ==
    [who |-> who, atoms |-> valid_atoms, ordered |-> ordered]

\* lines 256-257: return 1 when arguments were given and none became an atom.
CheckResolved ==
    /\ upc = "resolved"
    /\ IF NothingResolved(files, valid_atoms)
       THEN UReturn(1)
       ELSE upc' = "dispatch" /\ UNCHANGED rval
    /\ UNCHANGED <<action, files, cursor, valid_atoms, origin, lookup_owners,
                   owned, search_for_multiple, owners, warned, dispatched>>
    /\ UNCHANGED <<treeVars, locVars, syncVars>>

\* lines 270-271: deselect returns what action_deselect returns.
Deselect ==
    /\ upc = "dispatch"
    /\ action = "deselect"
    /\ dispatched' = Append(dispatched, Dispatch("action_deselect", FALSE))
    /\ \E rc \in ExitCodes : UReturn(rc)
    /\ UNCHANGED <<action, files, cursor, valid_atoms, origin, lookup_owners,
                   owned, search_for_multiple, owners, warned>>
    /\ UNCHANGED <<treeVars, locVars, syncVars>>

\* line 284
Ordered(act) == act = "unmerge"

\* lines 276-288: clean, unmerge and prune --nodeps go through a Scheduler to
\* unmerge, and return os.EX_OK.
Unmerge ==
    /\ upc = "dispatch"
    /\ \E nodeps \in BOOLEAN :
         action \in {"clean", "unmerge"} \/ (action = "prune" /\ nodeps)
    /\ dispatched' = dispatched \o <<Dispatch("Scheduler", FALSE),
                                     Dispatch("unmerge", Ordered(action))>>
    /\ UReturn(0)
    /\ UNCHANGED <<action, files, cursor, valid_atoms, origin, lookup_owners,
                   owned, search_for_multiple, owners, warned>>
    /\ UNCHANGED <<treeVars, locVars, syncVars>>

\* lines 276-293: depclean and prune without --nodeps return what
\* action_depclean returns.
Depclean ==
    /\ upc = "dispatch"
    /\ \E nodeps \in BOOLEAN :
         action = "depclean" \/ (action = "prune" /\ ~nodeps)
    /\ dispatched' = dispatched \o <<Dispatch("Scheduler", FALSE),
                                     Dispatch("action_depclean", FALSE)>>
    /\ \E rc \in ExitCodes : UReturn(rc)
    /\ UNCHANGED <<action, files, cursor, valid_atoms, origin, lookup_owners,
                   owned, search_for_multiple, owners, warned>>
    /\ UNCHANGED <<treeVars, locVars, syncVars>>

UninstallNext ==
    \/ Classify
    \/ LookupOwners
    \/ CheckResolved
    \/ Deselect
    \/ Unmerge
    \/ Depclean

\* ------------------------------------------------------------------------
\* Specifications
\* ------------------------------------------------------------------------

\* No profile tree and no constructor call.
LocIdle ==
    /\ hasParentFile = [d \in Dirs |-> FALSE]
    /\ parentsOf = [d \in Dirs |-> <<>>]
    /\ eapiFile = [d \in Dirs |-> "absent"]
    /\ lpc = "idle"
    /\ config_root_isdir = "unread"
    /\ profile_path = "unset"
    /\ user_config = "unread"
    /\ custom_prof_exists = "unread"
    /\ profiles = <<>>
    /\ user_profile_dir = "None"
    /\ stack = <<>>
    /\ visited = <<>>
    /\ error = NoError

\* LocationsManager(...) over every bounded profile tree.
LocStart == TreeInit /\ LocInit /\ SyncIdle /\ UninstallIdle
LocSpec == LocStart /\ [][LocNext]_vars

\* The constructor runs on: a step that can be taken is taken.
LocFairSpec == LocSpec /\ WF_vars(LocNext)

\* action_sync(...) over every input and every state of the directories.
SyncStart == LocIdle /\ SyncInit /\ UninstallIdle
SyncSpec == SyncStart /\ [][SyncNext]_vars

\* action_uninstall(...) over every action and every bounded list of
\* arguments.
UninstallStart == LocIdle /\ SyncIdle /\ UninstallInit
UninstallSpec == UninstallStart /\ [][UninstallNext]_vars

\* ------------------------------------------------------------------------
\* Properties of the profile resolver
\* ------------------------------------------------------------------------

\* The profile directories named in the parent file of p.
ParentsOf(p) == {q \in Dirs : q \in Range(parentsOf[p])}

\* Every profile reachable from p through parent references.
Ancestors(p) == ReachFrom(parentsOf, ParentsOf(p), NumDirs)

Count(list, d) == Cardinality({i \in 1..Len(list) : list[i] = d})

\* Number of parent-reference chains that lead from p to d, one per way of
\* choosing an entry at each step, chains of up to k directories.
RECURSIVE Chains(_, _, _)
RECURSIVE ChainsVia(_, _, _, _)
ChainsVia(es, n, d, k) ==
    IF n = 0 THEN 0
    ELSE ChainsVia(es, n - 1, d, k)
         + (IF PathExists(es[n]) THEN Chains(es[n], d, k) ELSE 0)
Chains(p, d, k) ==
    IF k = 0 THEN 0
    ELSE (IF p = d THEN 1 ELSE 0)
         + ChainsVia(parentsOf[p], Len(parentsOf[p]), d, k - 1)

\* C1: when _addProfile returns for the root profile, every ancestor of each
\* entry of the cascade (every profile reachable from it through parent
\* references) stands somewhere before that entry, and the root profile is
\* the last entry.
C1_AncestorsFirst ==
    lpc = "resolved" =>
        /\ profiles # <<>>
        /\ profiles[Len(profiles)] = RootDir
        /\ \A i \in 1..Len(profiles) :
             \A a \in Ancestors(profiles[i]) :
                \E j \in 1..(i - 1) : profiles[j] = a

\* A resolved cascade of a tree in which a profile has two parents and a
\* grandparent.
C1_Witness ==
    /\ lpc = "resolved"
    /\ Len(profiles) >= 3
    /\ \E d \in Dirs : Len(parentsOf[d]) = 2 /\ Ancestors(d) # ParentsOf(d)

\* C2: the resolver never deduplicates: when _addProfile returns for the root
\* profile, each directory stands in the cascade once per parent-reference
\* chain from the root that reaches it, and the cascade has one entry per
\* _addProfile call made.
C2_NoDedup ==
    lpc = "resolved" =>
        /\ \A d \in Dirs : Count(profiles, d) = Chains(RootDir, d, NumDirs)
        /\ Len(profiles) = Len(visited)

\* A resolved diamond: a profile that two different profiles name as parent
\* stands twice in the cascade.
C2_Witness ==
    /\ lpc = "resolved"
    /\ \E d \in Dirs :
         /\ Count(profiles, d) = 2
         /\ \E a, b \in Dirs : a # b /\ d \in ParentsOf(a) /\ d \in ParentsOf(b)

\* C3: when _addProfile raised a ParseError, the constructor goes on to its
\* end, and at its end self.profiles is empty and no user profile directory
\* is set, whatever had been appended before the error and whether or not
\* user config is enabled and the custom profile directory exists.
C3_FailureLeavesNoProfiles ==
    error.kind # "none" =>
        /\ lpc \in {"ParseError", "user", "done"}
        /\ lpc \in {"user", "done"} => profiles = <<>>
        /\ user_profile_dir = "None"

\* A finished constructor whose resolver failed after appending profiles,
\* with user config enabled and the custom profile directory on disk.
C3_Witness ==
    /\ lpc = "done"
    /\ error.kind # "none"
    /\ error.partial > 0
    /\ user_config = "yes"
    /\ custom_prof_exists = "yes"

\* C4: a directory whose parent file exists and has no entries is never
\* appended to the cascade, and a resolution that called _addProfile on it
\* never succeeds: once the call reads the parent file (its EAPI check
\* passed) it raises the empty-parent-file ParseError for that directory.
C4_EmptyParentFileFails ==
    \A d \in Dirs :
        (hasParentFile[d] /\ parentsOf[d] = <<>>) =>
            /\ d \notin Range(profiles)
            /\ d \in Range(visited) =>
                 /\ lpc \in {"addProfile", "ParseError", "user", "done"}
                 /\ lpc # "addProfile" => error.kind # "none"
                 /\ (lpc # "addProfile" /\ eapiFile[d] # "unsupported") =>
                        (error.kind = "EmptyParentFile" /\ error.path = d)

\* A finished constructor whose resolver met an empty parent file in a parent
\* of the root profile.
C4_Witness ==
    /\ lpc = "done"
    /\ error.kind = "EmptyParentFile"
    /\ error.path # RootDir
    /\ error.path \in Range(visited)

\* C5: a call of _addProfile on a directory whose eapi file names an
\* unsupported EAPI is the last call made: none of its parents is visited,
\* the directory is not appended and the resolution fails with the
\* unsupported-EAPI ParseError for it, with or without a parent file.
C5_UnsupportedEapiFails ==
    \A k \in 1..Len(visited) :
        eapiFile[visited[k]] = "unsupported" =>
            /\ k = Len(visited)
            /\ visited[k] \notin Range(profiles)
            /\ lpc \in {"addProfile", "ParseError", "user", "done"}
            /\ lpc # "addProfile" =>
                 (error.kind = "UnsupportedEAPI" /\ error.path = visited[k])

\* A finished constructor whose resolver met an unsupported EAPI in a
\* directory that names an existing parent.
C5_Witness ==
    /\ lpc = "done"
    /\ error.kind = "UnsupportedEAPI"
    /\ \E q \in ParentsOf(error.path) : q \notin Range(visited)

\* C6: when config_root is not a directory the constructor raises
\* DirectoryNotFound and nothing else has happened: no profile path is
\* chosen, self.profiles holds nothing and _addProfile was never called.
C6_ConfigRootMustBeDirectory ==
    config_root_isdir = "no" =>
        /\ lpc = "DirectoryNotFound"
        /\ profile_path = "unset"
        /\ profiles = <<>>
        /\ visited = <<>>
        /\ stack = <<>>

\* The constructor raised DirectoryNotFound for a tree that has profiles to
\* resolve.
C6_Witness ==
    /\ lpc = "DirectoryNotFound"
    /\ config_root_isdir = "no"
    /\ hasParentFile[RootDir]

\* ------------------------------------------------------------------------
\* Properties of action_sync
\* ------------------------------------------------------------------------

\* The call takes the bootstrap branch: PORTDIR is set, git is there, the
\* tree does not exist and SYNC is set.
Bootstrap ==
    sin.portdir /\ sin.git /\ sin.syncuri /\ fs0.fin = "absent"

\* The i-th external step was the named one and did not end with os.EX_OK.
FailedAt(i, step) == calls[i].step = step /\ calls[i].rc # 0

\* work_path exists and holds something.
WorkNotEmpty(d) == d.work /\ (d.work_other \/ d.tmp # "absent")

\* C7: a bootstrap sync in which every external step exits 0 returns
\* os.EX_OK, and at its end the tree exists at its final place and the
\* temporary work directory does not exist any more.
C7_BootstrapEndsClean ==
    (/\ Bootstrap
     /\ spc = "returned"
     /\ \A i \in 1..Len(calls) : calls[i].rc = 0) =>
        /\ result.code = 0
        /\ fs.fin # "absent"
        /\ ~fs.work

\* C8 as stated: after a bootstrap sync whose clone exits non-zero there is
\* no directory at the final place, the work directory is not left with
\* content, and a cleanup of the work directory was attempted.
C8_CleanupAfterFailedClone ==
    \A i \in 1..Len(calls) :
        (FailedAt(i, "git clone") /\ spc = "exited") =>
            /\ fs.fin = "absent"
            /\ ~WorkNotEmpty(fs)
            /\ \E j \in 1..Len(calls) : calls[j].step = "rm -rf"

\* C8 as amended: a clone that exits non-zero is the last step of a bootstrap
\* sync: the sync ends with sys.exit(1), there is no directory at the final
\* place, no cleanup is attempted, and the work directory is left in place.
C8_FailedCloneExits ==
    \A i \in 1..Len(calls) :
        FailedAt(i, "git clone") =>
            /\ i = Len(calls)
            /\ spc = "exited"
            /\ result = [kind |-> "exit", code |-> 1]
            /\ fs.fin = "absent"
            /\ fs.work

\* A bootstrap sync ended by a failed clone that left a partial clone behind.
C8_Witness ==
    /\ spc = "exited"
    /\ calls # <<>>
    /\ FailedAt(Len(calls), "git clone")
    /\ fs.tmp = "files"

\* C9 as stated: a bootstrap sync that finds the work directory or the
\* temporary clone path in place, empty or not, ends with a fatal error
\* before it creates or deletes anything and before any external step.
C9_AnyLeftoverAborts ==
    (/\ Bootstrap
     /\ fs0.work \/ fs0.tmp # "absent"
     /\ spc \notin {"start", "checkdirs"}) =>
        /\ spc = "exited"
        /\ calls = <<>>
        /\ fs = fs0

\* A leftover at the temporary places that os.rmdir cannot remove: the clone
\* path holds files, or the work directory holds something else.
Leftover(d) == d.tmp = "files" \/ d.work_other

\* C9 as amended: a bootstrap sync that finds, at the temporary clone path or
\* the work directory, a directory that holds files ends with sys.exit(1)
\* before any external step and without creating anything (an empty clone
\* path may have been removed by then); directories found empty there are
\* removed and the sync goes on.
C9_LeftoverWithFilesAborts ==
    (Bootstrap /\ spc \notin {"start", "checkdirs"}) =>
        /\ Leftover(fs0) =>
             /\ spc = "exited"
             /\ result = [kind |-> "exit", code |-> 1]
             /\ calls = <<>>
             /\ fs = [fs0 EXCEPT !.tmp = fs.tmp]
             /\ fs.tmp \in {fs0.tmp, "absent"}
             /\ fs.tmp # fs0.tmp => fs0.tmp = "empty"
        /\ (~Leftover(fs0) /\ spc = "mkwork") =>
             /\ calls = <<>>
             /\ ~fs.work
             /\ fs.tmp = "absent"

\* A bootstrap sync ended by a work directory that holds files, after the
\* empty clone path in it was removed.
C9_Witness ==
    /\ Bootstrap
    /\ spc = "exited"
    /\ calls = <<>>
    /\ fs0.tmp = "empty"
    /\ fs0.work_other
    /\ fs.tmp = "absent"

\* C10: when the tree exists without .git no external step is ever invoked
\* (no probe, no pull, none of the post-sync steps), and a sync that gets to
\* the check of the tree ends with sys.exit(1).
C10_NoMarkerNoPull ==
    fs0.fin = "plain" =>
        /\ calls = <<>>
        /\ spc \in {"start", "marker", "exited", "returned"}
        /\ (sin.portdir /\ sin.git /\ spc \notin {"start", "marker"}) =>
             (spc = "exited" /\ result = [kind |-> "exit", code |-> 1])

\* A sync ended at the check of a tree without .git.
C10_Witness ==
    /\ fs0.fin = "plain"
    /\ sin.portdir
    /\ sin.git
    /\ sin.action = "sync"
    /\ spc = "exited"

\* The external steps of the bootstrap whose failure ends the sync.
FatalSteps == {"install -d work_path", "su cd common_path", "git clone", "mv"}

\* C11 as stated: when one of the fatal bootstrap steps (work directory,
\* probe, clone, move) exits with a status c other than 0, the sync ends with
\* exit status c.
C11_ExitsWithStepStatus ==
    \A i \in 1..Len(calls) :
        (calls[i].step \in FatalSteps /\ calls[i].rc # 0) =>
            /\ spc = "exited"
            /\ result = [kind |-> "exit", code |-> calls[i].rc]

\* C11 as amended: when one of the fatal bootstrap steps exits with a status
\* c other than 0, it is the last step and the sync ends with exit status 1,
\* whatever c is.
C11_ExitsWithOne ==
    \A i \in 1..Len(calls) :
        (calls[i].step \in FatalSteps /\ calls[i].rc # 0) =>
            /\ i = Len(calls)
            /\ spc = "exited"
            /\ result = [kind |-> "exit", code |-> 1]

\* A bootstrap sync ended by a probe that exited with a status above 1.
C11_Witness ==
    /\ spc = "exited"
    /\ calls # <<>>
    /\ calls[Len(calls)].step = "su cd common_path"
    /\ calls[Len(calls)].rc > 1

\* The external steps of the bootstrap, in the order of lines 85-111.
BootstrapSteps ==
    <<"install -d work_path", "su cd common_path", "git clone", "mv", "rm -rf">>

\* C15: the bootstrap is a strict pipeline.  Its steps are invoked in the
\* order work directory, probe, clone, move, cleanup; a step is invoked only
\* after every earlier step exited 0; and once one of the first four steps
\* exits non-zero the sync has ended: no later bootstrap step and no
\* post-sync step is invoked.
C15_StrictPipeline ==
    /\ \A i \in 1..Len(calls) : \A k \in 1..Len(BootstrapSteps) :
           calls[i].step = BootstrapSteps[k] =>
               /\ i = k
               /\ \A h \in 1..(k - 1) :
                      calls[h] = [step |-> BootstrapSteps[h], rc |-> 0]
    /\ Bootstrap =>
           \A i \in 1..Len(calls) :
               i <= Len(BootstrapSteps) => calls[i].step = BootstrapSteps[i]
    /\ \A i \in 1..Len(calls) :
           (calls[i].step \in FatalSteps /\ calls[i].rc # 0) =>
               i = Len(calls) /\ spc = "exited"

\* A bootstrap sync ended by a failed move, after the work directory, the
\* probe and the clone succeeded.
C15_Witness ==
    /\ spc = "exited"
    /\ Len(calls) = 4
    /\ FailedAt(4, "mv")
    /\ \A h \in 1..3 : calls[h].rc = 0

\* The i-th step under the name the post-sync order knows it by: the first
\* load_emerge_config of a sync and the one that follows applied updates
\* are told apart.
Label(i) ==
    IF calls[i].step = "load_emerge_config"
    THEN IF \E j \in 1..(i - 1) : calls[j].step = "load_emerge_config"
         THEN "second reload"
         ELSE "first reload"
    ELSE calls[i].step

\* The place of x in the sequence order.
Pos(order, x) == CHOOSE k \in 1..Len(order) : order[k] = x

\* The post-sync steps of the sync so far were invoked in the given order.
InOrder(order) ==
    \A i, j \in 1..Len(calls) :
        (i < j /\ Label(i) \in Range(order) /\ Label(j) \in Range(order)) =>
            Pos(order, Label(i)) < Pos(order, Label(j))

\* C16 as stated: the post-sync steps run in the order timestamp sync,
\* metadata-cache update, configuration reload, global updates (with commit
\* and second reload), config-file report, hook, news; the cache update is
\* always before the first reload.
C16_CacheUpdateBeforeReload ==
    InOrder(<<"git_sync_timestamps", "action_metadata", "first reload",
              "_global_updates", "mtimedb.commit", "second reload",
              "chk_updated_cfg_files", "post_sync",
              "display_news_notification">>)

\* C16 as amended: the post-sync steps run in the order timestamp sync,
\* configuration reload, metadata-cache update (when it runs), global
\* updates (commit and a second reload come together, right after it),
\* config-file report, hook, news; the cache update is always after the
\* first reload, and a sync that returns after the news step went through
\* the timestamp sync, the reload and the config-file report.
C16_ReloadBeforeCacheUpdate ==
    /\ InOrder(<<"git_sync_timestamps", "first reload", "action_metadata",
                 "_global_updates", "mtimedb.commit", "second reload",
                 "chk_updated_cfg_files", "post_sync",
                 "display_news_notification">>)
    /\ \A i \in 1..Len(calls) :
           /\ calls[i].step = "action_metadata" =>
                  \E j \in 1..(i - 1) : Label(j) = "first reload"
           /\ calls[i].step = "mtimedb.commit" =>
                  /\ i > 1
                  /\ calls[i - 1].step = "_global_updates"
                  /\ i < Len(calls)
                  /\ Label(i + 1) = "second reload"
           /\ Label(i) = "second reload" =>
                  calls[i - 1].step = "mtimedb.commit"
           /\ calls[i].step = "display_news_notification" =>
                  /\ i = Len(calls)
                  /\ \A s \in {"git_sync_timestamps", "first reload",
                               "chk_updated_cfg_files"} :
                         \E j \in 1..(i - 1) : Label(j) = s

\* A sync that returned after the cache update, applied global updates and
\* the hook.
C16_Witness ==
    /\ spc = "returned"
    /\ \A s \in {"action_metadata", "mtimedb.commit", "post_sync",
                 "display_news_notification"} :
           \E i \in 1..Len(calls) : calls[i].step = s

\* The sync went past the decision of lines 144-148.
PastMetadata == fs.cache # "unread"

\* action_metadata was invoked.
CacheUpdated == \E i \in 1..Len(calls) : calls[i].step = "action_metadata"

\* C17 as stated: the metadata-cache updater is invoked whenever the action
\* is the metadata-only refresh or the repository holds metadata/cache, and
\* is not invoked when neither holds; no other setting matters.
C17_UpdatedWhenMetadataOrCache ==
    PastMetadata =>
        (CacheUpdated <=> (sin.action = "metadata" \/ fs.cache = "yes"))

\* C17 as amended: the metadata-cache updater is invoked exactly when the
\* repository holds metadata/cache and, besides, the action is the
\* metadata-only refresh or the metadata-transfer feature is enabled; it is
\* invoked at most once.
C17_UpdatedWhenCacheAndFlag ==
    /\ PastMetadata =>
           (CacheUpdated <=>
                /\ fs.cache = "yes"
                /\ sin.action = "metadata" \/ sin.metadata_transfer)
    /\ ~PastMetadata => ~CacheUpdated
    /\ Cardinality({i \in 1..Len(calls) : calls[i].step = "action_metadata"}) <= 1

\* A plain sync with the metadata-transfer feature that updated the cache.
C17_Witness ==
    /\ CacheUpdated
    /\ sin.action = "sync"
    /\ sin.metadata_transfer

\* The steps that come after the pull.
PostSyncSteps ==
    {"git_sync_timestamps", "load_emerge_config", "action_metadata",
     "_global_updates", "mtimedb.commit", "chk_updated_cfg_files",
     "post_sync", "display_news_notification"}

\* action_sync is over: it returned, left through sys.exit or raised.
Ended == spc \in {"returned", "exited", "raised"}

\* A pull that exits non-zero with status c is the last step of the sync,
\* and action_sync returns c to its caller.
PullFailureReturned ==
    \A i \in 1..Len(calls) :
        (calls[i].step = "git pull" /\ calls[i].rc # 0) =>
            /\ i = Len(calls)
            /\ spc = "returned"
            /\ result = [kind |-> "return", code |-> calls[i].rc]

\* C18 as stated: in an update sync, a pull that exits non-zero with status
\* c makes action_sync return c, with no post-sync step invoked; after a
\* pull that exits 0 the post-sync steps run and the result is os.EX_OK.
C18_PullDecidesResult ==
    /\ PullFailureReturned
    /\ \A i \in 1..Len(calls) :
           (calls[i].step = "git pull" /\ calls[i].rc = 0 /\ Ended) =>
               /\ result = [kind |-> "return", code |-> 0]
               /\ \E j \in (i + 1)..Len(calls) : calls[j].step \in PostSyncSteps

\* C18 as amended: a pull that exits non-zero with status c makes
\* action_sync return c, with no post-sync step invoked; after a pull that
\* exits 0 the timestamp sync runs next, and the sync then either returns
\* os.EX_OK after the news step or, when the timestamp sync failed, ends
\* there with an error and without any other post-sync step.
C18_PullFailureReturned ==
    /\ PullFailureReturned
    /\ \A i \in 1..Len(calls) :
           (calls[i].step = "git pull" /\ calls[i].rc = 0) =>
               /\ spc # "timestamps" =>
                      /\ i < Len(calls)
                      /\ calls[i + 1].step = "git_sync_timestamps"
               /\ Ended =>
                      \/ /\ result = [kind |-> "return", code |-> 0]
                         /\ calls[i + 1].rc = 0
                         /\ calls[Len(calls)].step = "display_news_notification"
                      \/ /\ spc = "raised"
                         /\ calls[i + 1].rc # 0
                         /\ Len(calls) = i + 1

\* An update sync ended by a pull that exited with a status above 1.
C18_Witness ==
    /\ spc = "returned"
    /\ calls # <<>>
    /\ calls[Len(calls)].step = "git pull"
    /\ calls[Len(calls)].rc > 1
    /\ result.code = calls[Len(calls)].rc

\* ------------------------------------------------------------------------
\* Properties of action_uninstall
\* ------------------------------------------------------------------------

\* The argument is neither a valid atom, nor an absolute path under $ROOT,
\* nor (for deselect) a package set.
Unusable(x, act) ==
    Classification(x, act) \in {"not a valid atom", "not under ROOT"}

\* C12: when any argument, at any place, is neither a valid atom, nor an
\* absolute path under the target root, nor (for deselect) a set, the call
\* returns 1 and no collaborator (Scheduler, unmerge, action_depclean,
\* action_deselect) is ever invoked, whatever the other arguments are.
C12_AllOrNothing ==
    (\E i \in 1..Len(files) : Unusable(files[i], action)) =>
        /\ dispatched = <<>>
        /\ upc \in {"classify", "returned"}
        /\ upc = "returned" => rval = [kind |-> "return", code |-> 1]
        /\ DOMAIN owned = {}

\* A call that returned after two good arguments, because of the third.
C12_Witness ==
    /\ upc = "returned"
    /\ Len(files) = 3
    /\ Len(valid_atoms) = 1
    /\ Len(lookup_owners) = 1
    /\ Unusable(files[3], action)

\* The places of valid_atoms that hold an atom made for an owner.
OwnerPlaces == {p \in 1..Len(valid_atoms) : origin[p].arg = 0}

\* C13: an atom made for the owner of a path is category/name:slot when the
\* installed package has a non-empty slot and the bare category/name when
\* it has none; the version of the package is never part of it.
C13_OwnerAtomHasNoVersion ==
    /\ Len(origin) = Len(valid_atoms)
    /\ \A p \in OwnerPlaces :
           LET cpv == origin[p].cpv
           IN  /\ cpv \in Installed
               /\ valid_atoms[p] =
                      IF SLOT(cpv) = "" THEN <<cpv[1]>>
                      ELSE <<cpv[1], ":", SLOT(cpv)>>
               /\ cpv[3] \notin Range(valid_atoms[p])

\* Atoms were made for a package without slot and for a package with a slot.
C13_Witness ==
    /\ \E p \in OwnerPlaces : SLOT(origin[p].cpv) = ""
    /\ \E p \in OwnerPlaces : SLOT(origin[p].cpv) # ""

\* The arguments that the atom at place p of valid_atoms stands for: the
\* argument it was made from, or the paths that the owner it was made for
\* owns.
ArgsOf(p) ==
    IF origin[p].arg > 0 THEN {origin[p].arg}
    ELSE {i \in Range(lookup_owners) : origin[p].cpv \in owned[files[i].text]}

\* The first of the arguments that the atom at place p stands for.
FirstArgOf(p) == CHOOSE i \in ArgsOf(p) : \A j \in ArgsOf(p) : i <= j

\* unmerge was called for the action unmerge, with the atoms collected and
\* ordered set.
UnmergeCalled ==
    /\ action = "unmerge"
    /\ \E d \in 1..Len(dispatched) :
           dispatched[d] = [who |-> "unmerge", atoms |-> valid_atoms,
                            ordered |-> TRUE]

\* C14 as stated: in the list that unmerge is given for the action unmerge,
\* the atom of an argument comes before the atom of every later argument,
\* for arguments given as atoms and for paths resolved through their owner
\* (an owner of several paths is placed by the first of them).
C14_KeepsArgumentOrder ==
    /\ (action = "unmerge" /\ dispatched # <<>>) => UnmergeCalled
    /\ UnmergeCalled =>
           \A p, q \in 1..Len(valid_atoms) :
               FirstArgOf(p) < FirstArgOf(q) => p < q

\* C14 as amended: in the list that unmerge is given for the action unmerge,
\* the atoms of the arguments given as atoms stand in the order of the
\* arguments, and the atoms made for the owners of paths stand after all of
\* them, wherever the paths stood among the arguments.
C14_KeepsOrderOfAtoms ==
    /\ (action = "unmerge" /\ dispatched # <<>>) => UnmergeCalled
    /\ UnmergeCalled =>
           \A p, q \in 1..Len(valid_atoms) :
               /\ (origin[p].arg > 0 /\ origin[q].arg > 0
                     /\ origin[p].arg < origin[q].arg) => p < q
               /\ (origin[p].arg > 0 /\ origin[q].arg = 0) => p < q

\* unmerge was called with the atom of the second argument in front of the
\* atom made for the owner of the path given first.
C14_Witness ==
    /\ UnmergeCalled
    /\ Len(files) >= 2
    /\ files[1].kind = "path"
    /\ \E p \in 1..Len(valid_atoms) : origin[p].arg = 2
    /\ \E q \in 1..Len(valid_atoms) : origin[q].arg = 0

\* The owner lookup of lines 223-253 was made.
LookupDone == DOMAIN owned # {}

\* Every installed package that owns one of the queued paths.
AllOwners == UNION {owned[x] : x \in DOMAIN owned}

\* The places of valid_atoms that hold the atom made for the owner cpv.
PlacesOf(cpv) == {p \in OwnerPlaces : origin[p].cpv = cpv}

\* C19: the owner lookup stops at the first owner found only when exactly
\* one path was given; when two or more paths are looked up together, every
\* package that owns any of them is turned into an atom, and each such
\* package into exactly one atom.
C19_AllOwnersOfSeveralPaths ==
    LookupDone =>
        /\ ~search_for_multiple =>
               /\ Len(lookup_owners) = 1
               /\ Cardinality(owners) <= 1
        /\ Len(lookup_owners) >= 2 =>
               /\ search_for_multiple
               /\ owners = AllOwners
        /\ \A cpv \in owners : Cardinality(PlacesOf(cpv)) = 1
        /\ \A p \in OwnerPlaces : origin[p].cpv \in owners

\* Two paths were looked up; one package owns both of them and another
\* package owns one of them.
C19_Witness ==
    /\ LookupDone
    /\ Len(lookup_owners) = 2
    /\ Cardinality(DOMAIN owned) = 2
    /\ Cardinality(AllOwners) = 2
    /\ \E cpv \in AllOwners : \A x \in DOMAIN owned : cpv \in owned[x]

\* A path was looked up that no installed package owns.
UnownedPath == \E x \in DOMAIN owned : owned[x] = {}

\* The call returned non-zero without calling a collaborator.
FailedBeforeDispatch ==
    upc = "returned" /\ rval.code # 0 /\ dispatched = <<>>

\* The loop over the arguments went through all of them and the owner
\* lookup is behind.
PastLoop == cursor > Len(files) /\ upc # "classify"

\* C20 as stated: a path that no package owns does not fail the call by
\* itself: the call warns and goes on to dispatch the atoms of the other
\* arguments; the call returns non-zero without dispatching exactly when
\* arguments were given and none became an atom.
C20_UnownedPathWarns ==
    /\ UnownedPath => warned # <<>>
    /\ (UnownedPath /\ upc = "returned" /\ valid_atoms # <<>>) =>
           dispatched # <<>>
    /\ upc = "returned" =>
           (FailedBeforeDispatch <=> (files # <<>> /\ valid_atoms = <<>>))

\* C20 as amended: a path that no package owns does not fail the call by
\* itself: the call goes on to dispatch the atoms of the other arguments,
\* and it warns, naming the first path, only when none of the paths given
\* has an owner; once every argument went through the loop, the call
\* returns 1 without dispatching exactly when arguments were given and none
\* became an atom.
C20_WarnsWhenNoPathIsOwned ==
    /\ PastLoop =>
           /\ warned # <<>> <=> (lookup_owners # <<>> /\ AllOwners = {})
           /\ warned # <<>> => warned = <<lookup_owners[1]>>
    /\ (PastLoop /\ upc = "returned") =>
           IF files # <<>> /\ valid_atoms = <<>>
           THEN FailedBeforeDispatch /\ rval.code = 1
           ELSE /\ dispatched # <<>>
                /\ dispatched[Len(dispatched)].atoms = valid_atoms
    /\ ~PastLoop => (warned = <<>> /\ dispatched = <<>>)

\* A call that warned about a path without owner and then dispatched the
\* atom of another argument.
C20_Witness ==
    /\ upc = "returned"
    /\ UnownedPath
    /\ warned # <<>>
    /\ valid_atoms # <<>>
    /\ dispatched # <<>>

\* ------------------------------------------------------------------------
\* Termination of the profile resolver
\* ------------------------------------------------------------------------

\* A cycle of parent references can be reached from the root profile.
Cyclic == \E d \in Referenced(parentsOf) : d \in Ancestors(d)

\* Every entry of every parent file names a directory that exists.
ExistingParents ==
    \A d \in Dirs : \A i \in 1..Len(parentsOf[d]) : PathExists(parentsOf[d][i])

\* No directory carries an eapi file with an unsupported EAPI.
SupportedEapis == \A d \in Dirs : eapiFile[d] # "unsupported"

\* No directory carries a parent file without entries.
NoEmptyParentFile == \A d \in Dirs : ~(hasParentFile[d] /\ parentsOf[d] = <<>>)

\* _addProfile was called for the root profile.
Started == visited # <<>>

\* The call of _addProfile for the root profile came back to __init__, with
\* a cascade or with a ParseError.
Completed == Started /\ lpc \in {"resolved", "ParseError", "user", "done"}

\* C21 as stated: there is no cycle detection.  On an acyclic profile graph
\* the traversal does not run into the recursion limit, and on a graph with
\* existing parents and supported EAPIs that holds a cycle reachable from
\* the root it never comes back with a cascade or a ParseError.
C21_CycleNeverCompletes ==
    /\ lpc = "RuntimeError" => Cyclic
    /\ Completed => ~(ExistingParents /\ SupportedEapis /\ Cyclic)

\* C21 as amended: there is no cycle detection.  On every acyclic profile
\* graph the traversal terminates, without running into the recursion limit.
\* On a graph with existing parents, supported EAPIs and no empty parent
\* file that holds a cycle reachable from the root, the traversal never comes
\* back with a cascade or a ParseError: it recurses until the recursion limit
\* ends it with a RuntimeError.  (Every traversal ends, in a return to
\* __init__ or in the RuntimeError; the first two conjuncts tell which.)
C21_NoCycleDetection ==
    /\ [](lpc = "RuntimeError" => Cyclic)
    /\ []((Completed \/ error # NoError) =>
             ~(ExistingParents /\ SupportedEapis /\ NoEmptyParentFile
                 /\ Cyclic))
    /\ Started ~> (Completed \/ lpc = "RuntimeError")

\* A traversal ended by the recursion limit in a cycle that the root profile
\* leads to but is not part of.
C21_Witness ==
    /\ lpc = "RuntimeError"
    /\ Cyclic
    /\ RootDir \notin Ancestors(RootDir)
    /\ ExistingParents
    /\ SupportedEapis
    /\ NoEmptyParentFile

\* C22: a call with the action metadata skips the sync: no clone, move or
\* pull is invoked, the tree on disk is left as it was found, the steps
\* invoked are post-sync steps only, and the post-sync hook is not among
\* them.
C22_MetadataSkipsSync ==
    sin.action = "metadata" =>
        /\ \A i \in 1..Len(calls) :
               /\ calls[i].step \notin {"git clone", "mv", "git pull"}
               /\ calls[i].step \in PostSyncSteps \ {"post_sync"}
        /\ fs.fin = fs0.fin

====
